---- MODULE Spec2Model ----
(***************************************************************************)
(* Battery storage project cash-flow model (src/main.py).                  *)
(*                                                                         *)
(* The script is one straight-line computation over the sidebar inputs.    *)
(* The model follows it stage by stage (pc names the next stage) and keeps *)
(* the script's variable names.                                            *)
(*                                                                         *)
(* Arithmetic.  Every number of the script is a binary floating-point      *)
(* value (Python float / numpy float64) and every operation rounds its     *)
(* exact result to the nearest representable value, ties to even.  The     *)
(* model does the same with a significand of Prec bits instead of 53; the  *)
(* exponent is unbounded (no overflow or underflow) and zero is unsigned.  *)
(* A finite value is m * 2^e with m odd (or m = 0, e = 0) and |m| < 2^Prec.*)
(***************************************************************************)
EXTENDS Integers, Sequences, FiniteSets, TLC

\* Width of the significand, in bits.
Prec == 10

----------------------------------------------------------------------------
(* Floating-point values *)

Fin(m, e) == [k |-> "fin", m |-> m, e |-> e]
Zero == Fin(0, 0)
One == Fin(1, 0)
PInf == [k |-> "inf", m |-> 1, e |-> 0]
NInf == [k |-> "inf", m |-> -1, e |-> 0]
NaN == [k |-> "nan", m |-> 0, e |-> 0]

IsFin(x) == x.k = "fin"
IsNaN(x) == x.k = "nan"

Abs(n) == IF n < 0 THEN -n ELSE n
Sgn(n) == IF n < 0 THEN -1 ELSE IF n > 0 THEN 1 ELSE 0

RECURSIVE BitLen(_)
BitLen(a) == IF a = 0 THEN 0 ELSE 1 + BitLen(a \div 2)

\* The canonical form of m * 2^e: trailing zero bits of m moved to e.
RECURSIVE Canon(_, _)
Canon(m, e) ==
  IF m = 0 THEN Zero
  ELSE IF Abs(m) % 2 = 0 THEN Canon(Sgn(m) * (Abs(m) \div 2), e + 1)
  ELSE Fin(m, e)

\* m * 2^e (plus, when sticky, a nonzero amount below the last bit of m)
\* rounded to Prec significant bits, to nearest, ties to even.
Round(m, e, sticky) ==
  LET a == Abs(m)
      n == BitLen(a)
  IN IF n <= Prec THEN Canon(m, e)
     ELSE LET k == n - Prec
              q == a \div (2 ^ k)
              r == a % (2 ^ k)
              half == 2 ^ (k - 1)
              up == r > half \/ (r = half /\ (sticky \/ q % 2 = 1))
          IN Canon(Sgn(m) * (IF up THEN q + 1 ELSE q), e + k)

\* Position of the leading bit of a finite nonzero value.
Top(x) == x.e + BitLen(Abs(x.m))

FNeg(x) == IF IsFin(x) THEN Fin(-x.m, x.e)
           ELSE IF IsNaN(x) THEN NaN ELSE [x EXCEPT !.m = -x.m]

FAddFin(x, y) ==
  IF x.m = 0 THEN y
  ELSE IF y.m = 0 THEN x
  ELSE IF Top(x) - Top(y) > Prec + 2 THEN x
  ELSE IF Top(y) - Top(x) > Prec + 2 THEN y
  ELSE LET lo == IF x.e < y.e THEN x.e ELSE y.e
       IN Round(x.m * 2 ^ (x.e - lo) + y.m * 2 ^ (y.e - lo), lo, FALSE)

FAdd(x, y) ==
  IF IsFin(x) /\ IsFin(y) THEN FAddFin(x, y)
  ELSE IF IsNaN(x) \/ IsNaN(y) THEN NaN
  ELSE IF IsFin(x) THEN y
  ELSE IF IsFin(y) THEN x
  ELSE IF x.m = y.m THEN x ELSE NaN

FSub(x, y) == FAdd(x, FNeg(y))

FMul(x, y) ==
  IF IsFin(x) /\ IsFin(y) THEN Round(x.m * y.m, x.e + y.e, FALSE)
  ELSE IF IsNaN(x) \/ IsNaN(y) THEN NaN
  ELSE IF x.m = 0 \/ y.m = 0 THEN NaN
  ELSE IF Sgn(x.m) = Sgn(y.m) THEN PInf ELSE NInf

\* x / y for finite x and finite nonzero y.
FDivFin(x, y) ==
  IF x.m = 0 THEN Zero
  ELSE LET s0 == Prec + 2 + BitLen(Abs(y.m)) - BitLen(Abs(x.m))
           s == IF s0 < 0 THEN 0 ELSE s0
           n == Abs(x.m) * 2 ^ s
           q == n \div Abs(y.m)
           r == n % Abs(y.m)
       IN Round(Sgn(x.m) * Sgn(y.m) * q, x.e - y.e - s, r # 0)

\* numpy's division: a division by zero gives inf or nan (with a warning).
FDiv(x, y) ==
  IF IsFin(x) /\ IsFin(y)
  THEN IF y.m # 0 THEN FDivFin(x, y)
       ELSE IF x.m = 0 THEN NaN
       ELSE IF x.m > 0 THEN PInf ELSE NInf
  ELSE IF IsNaN(x) \/ IsNaN(y) THEN NaN
  ELSE IF IsFin(y) THEN (IF (y.m < 0) = (x.m < 0) THEN PInf ELSE NInf)
  ELSE IF IsFin(x) THEN Zero
  ELSE NaN

\* x ** n for an integer n >= 0 (pow), by repeated rounded multiplication.
RECURSIVE FPow(_, _)
FPow(x, n) == IF n = 0 THEN One ELSE FMul(FPow(x, n - 1), x)

\* Comparisons; every comparison with nan is false.
FSign(x) == IF IsNaN(x) THEN 0 ELSE Sgn(x.m)
FLt(x, y) == ~IsNaN(x) /\ ~IsNaN(y) /\ x # y /\ FSign(FSub(x, y)) < 0
FLe(x, y) == ~IsNaN(x) /\ ~IsNaN(y) /\ (x = y \/ FSign(FSub(x, y)) < 0)
FGt(x, y) == FLt(y, x)
FGe(x, y) == FLe(y, x)

\* The value of an integer literal or input (exact when it fits Prec bits).
FromInt(n) == Round(n, 0, FALSE)

\* The value nearest to n / d for integers n >= 0, d > 0: a decimal literal.
RECURSIVE LongDiv(_, _, _, _)
LongDiv(q, r, d, e) ==
  IF BitLen(q) >= Prec + 2 THEN Round(q, e, r # 0)
  ELSE IF 2 * r >= d THEN LongDiv(2 * q + 1, 2 * r - d, d, e - 1)
  ELSE LongDiv(2 * q, 2 * r, d, e - 1)

FromRat(n, d) ==
  IF n % d = 0 THEN FromInt(n \div d)
  ELSE IF n = 0 THEN Zero ELSE LongDiv(n \div d, n % d, d, 0)

----------------------------------------------------------------------------
(* Constants and array helpers of the script *)

Hundred == FromInt(100)

\* number_input(...) / 100.0 : a percentage typed in the sidebar, as a fraction.
Pct(p) == FDiv(p, Hundred)

\* macrs_rates, indexed from 0 as in the script.
macrs_rates ==
  [i \in 0..5 |-> CASE i = 0 -> FromRat(20, 100)
                    [] i = 1 -> FromRat(32, 100)
                    [] i = 2 -> FromRat(192, 1000)
                    [] i = 3 -> FromRat(1152, 10000)
                    [] i = 4 -> FromRat(1152, 10000)
                    [] i = 5 -> FromRat(576, 10000)]

\* The literal 1e-2 of the amortization loop.
Eps == FromRat(1, 100)

\* The literal 1e-9 of the payback search.
PaybackTol == FromRat(1, 1000000000)

\* A variant one entry short: an array of project_life entries.
ZerosShort(n) == [t \in 0..(n - 1) |-> Zero]

\* np.zeros_like(years, float)
Zeros(n) == [t \in 0..n |-> Zero]

\* array * scalar and array * array, element by element
Scale(a, c) == [t \in DOMAIN a |-> FMul(a[t], c)]
Times(a, b) == [t \in DOMAIN a |-> FMul(a[t], b[t])]
Plus(a, b) == [t \in DOMAIN a |-> FAdd(a[t], b[t])]

\* acc + a[i] + a[i+step] + ... over the indices i, i+step, .. <= hi
RECURSIVE SumFrom(_, _, _, _, _)
SumFrom(a, i, step, hi, acc) ==
  IF i > hi THEN acc ELSE SumFrom(a, i + step, step, hi, FAdd(acc, a[i]))

\* ndarray.sum() of a float64 array of n = hi + 1 <= 128 entries: numpy adds
\* fewer than 8 entries in order, and otherwise keeps 8 running sums over the
\* leading multiple of 8, combines them pairwise and adds the rest in order.
NpSum(a) ==
  LET hi == Cardinality(DOMAIN a) - 1
      n == hi + 1
      full == n - (n % 8)
      r(j) == SumFrom(a, j + 8, 8, full - 1, a[j])
      res == FAdd(FAdd(FAdd(r(0), r(1)), FAdd(r(2), r(3))),
                  FAdd(FAdd(r(4), r(5)), FAdd(r(6), r(7))))
  IN IF n < 8 THEN SumFrom(a, 0, 1, hi, Zero)
     ELSE SumFrom(a, full, 1, hi, res)

\* np.cumsum
RECURSIVE CumAt(_, _)
CumAt(a, t) == IF t = 0 THEN a[0] ELSE FAdd(CumAt(a, t - 1), a[t])
CumSum(a) == [t \in DOMAIN a |-> CumAt(a, t)]

----------------------------------------------------------------------------
(* State *)

\* Bounds of the model: the sliders allow a project life of 1..30 years.
MaxLife == 7

VARIABLES
  \* sidebar inputs, as the script holds them (percentages already / 100.0)
  investment, discount_rate, project_life, base_savings, escalation,
  savings_split, corp_tax, ira_credit_pct, bonus_depr_pct, finance_pct,
  loan_rate, loan_term,
  \* time grid, savings, credit, depreciation
  dfac, total_savings_arr, eqore_savings, customer_gross_savings, ira_credit,
  depreciation_arr, depreciation_tax_shield_arr,
  \* financing schedule
  loan_principal_amount, down_payment, loan_pmt, interest_payments,
  principal_payments, financing_cash_flow, remaining_balance, y_idx,
  interest_tax_shield_arr,
  \* history of the amortization loop: the balance entering each processed
  \* year and the branch of the last-payment adjustment taken in it
  balance_in, adjusted,
  \* stakeholder cash flows and metrics
  eqore_cf, eqore_npv, customer_cf, customer_npv, total_project_cf,
  total_project_npv, customer_irr_val, customer_irr_display,
  customer_mirr_val, customer_mirr_display, payback_period_display,
  \* the dates handed to xirr, in days counted from 1 January of the year
  \* in which the script runs
  dates,
  \* the next stage of the script
  pc,
  \* st.session_state: the widget values kept from one run of the script to
  \* the next, by widget key
  session_state,
  \* history of the session: the example button pressed for this run (if
  \* any), the number of runs started, and the inputs and outputs of the
  \* last run that finished
  selected, runs, last_run

inputs == <<investment, discount_rate, project_life, base_savings, escalation,
            savings_split, corp_tax, ira_credit_pct, bonus_depr_pct,
            finance_pct, loan_rate, loan_term>>
gridVars == <<dfac>>
savingsVars == <<total_savings_arr, eqore_savings, customer_gross_savings,
                 ira_credit>>
deprVars == <<depreciation_arr, depreciation_tax_shield_arr>>
loanVars == <<loan_principal_amount, down_payment, loan_pmt,
              interest_payments, principal_payments, financing_cash_flow,
              remaining_balance, y_idx, interest_tax_shield_arr, balance_in,
              adjusted>>
cfVars == <<eqore_cf, eqore_npv, customer_cf, customer_npv, total_project_cf,
            total_project_npv>>
irrVars == <<customer_irr_val, customer_irr_display, dates>>
mirrVars == <<customer_mirr_val, customer_mirr_display>>
sessionVars == <<session_state, selected, runs, last_run>>
vars == <<inputs, gridVars, savingsVars, deprVars, loanVars, cfVars, irrVars,
          mirrVars, payback_period_display, pc, sessionVars>>

\* A series that the script has not built yet.
Unset == [t \in {} |-> Zero]

\* A value the root-finder did not return: None, and a marker for a call
\* that raised (the variable is then never assigned).
None == [k |-> "none", m |-> 0, e |-> 0]
Raised == [k |-> "raised", m |-> 0, e |-> 0]

\* No run has finished yet in this session.
NoRun == [ran |-> FALSE]

\* The widget values of the sidebar, by widget key, as st.session_state
\* keeps them (percentages as typed, before the division by 100).
Session(inv, disc, life, sav, esc, split, tax, ira, bonus, finp, rate, term) ==
  [investment |-> inv, discount_rate |-> disc, project_life |-> life,
   base_savings |-> sav, escalation |-> esc, savings_split |-> split,
   corp_tax |-> tax, ira_credit_pct |-> ira, bonus_depr_pct |-> bonus,
   finance_pct |-> finp, loan_rate |-> rate, loan_term |-> term]

\* Lines 137-174: every widget returns the value kept under its key, the
\* percentages divided by 100.
SidebarReads(ss) ==
  /\ investment = ss.investment
  /\ discount_rate = Pct(ss.discount_rate)
  /\ project_life = ss.project_life
  /\ base_savings = ss.base_savings
  /\ escalation = Pct(ss.escalation)
  /\ savings_split = Pct(ss.savings_split)
  /\ corp_tax = Pct(ss.corp_tax)
  /\ ira_credit_pct = Pct(ss.ira_credit_pct)
  /\ bonus_depr_pct = Pct(ss.bonus_depr_pct)
  /\ finance_pct = Pct(ss.finance_pct)
  /\ loan_rate = Pct(ss.loan_rate)
  /\ loan_term = ss.loan_term

\* A run of the script that has not passed line 174: nothing is computed.
NotComputed ==
  /\ dfac = Unset
  /\ total_savings_arr = Unset /\ eqore_savings = Unset
  /\ customer_gross_savings = Unset /\ ira_credit = Zero
  /\ depreciation_arr = Unset /\ depreciation_tax_shield_arr = Unset
  /\ loan_principal_amount = Zero /\ down_payment = Zero /\ loan_pmt = Zero
  /\ interest_payments = Unset /\ principal_payments = Unset
  /\ financing_cash_flow = Unset /\ remaining_balance = Zero /\ y_idx = 0
  /\ interest_tax_shield_arr = Unset
  /\ balance_in = Unset /\ adjusted = Unset
  /\ eqore_cf = Unset /\ eqore_npv = Zero
  /\ customer_cf = Unset /\ customer_npv = Zero
  /\ total_project_cf = Unset /\ total_project_npv = Zero
  /\ customer_irr_val = None /\ customer_irr_display = ""
  /\ customer_mirr_val = None /\ customer_mirr_display = ""
  /\ dates = Unset
  /\ payback_period_display = ""

\* The state before line 176 of the first run of a session, the sidebar
\* values drawn from the given sets (percentages as typed; the sliders keep
\* 1 <= loan_term <= project_life).
InitWith(Inv, Disc, Life, Sav, Esc, Split, Tax, Ira, Bonus, Finp, Rate) ==
  /\ session_state \in
       UNION {{Session(inv, disc, life, sav, esc, split, tax, ira, bonus,
                       finp, rate, term) :
                 inv \in Inv, disc \in Disc, sav \in Sav, esc \in Esc,
                 split \in Split, tax \in Tax, ira \in Ira, bonus \in Bonus,
                 finp \in Finp, rate \in Rate, term \in 1..life} :
              life \in Life}
  /\ SidebarReads(session_state)
  /\ NotComputed
  /\ pc = "grid"
  /\ selected = "" /\ runs = 1 /\ last_run = NoRun

----------------------------------------------------------------------------
(* 0) Year index and discount factors *)

\* dfac = 1 / (1 + discount_rate) ** years
DiscountFactors(r, n) == [t \in 0..n |-> FDiv(One, FPow(FAdd(One, r), t))]

TimeGrid ==
  /\ pc = "grid"
  /\ dfac' = DiscountFactors(discount_rate, project_life)
  /\ pc' = "savings"
  /\ UNCHANGED <<sessionVars, inputs>>
  /\ UNCHANGED <<savingsVars, deprVars, loanVars, cfVars, irrVars,
                 mirrVars, payback_period_display>>

(* 1) Savings profile, 2) IRA credit *)

\* total_savings_arr[1:] = base_savings * (1 + escalation) ** (years[1:] - 1)
TotalSavings(s1, g, n) ==
  [t \in 0..n |-> IF t = 0 THEN Zero
                  ELSE FMul(s1, FPow(FAdd(One, g), t - 1))]

SavingsProfile ==
  /\ pc = "savings"
  /\ total_savings_arr' = TotalSavings(base_savings, escalation, project_life)
  /\ eqore_savings' = Scale(total_savings_arr', savings_split)
  /\ customer_gross_savings' =
       Scale(total_savings_arr', FSub(One, savings_split))
  /\ ira_credit' = FMul(ira_credit_pct, investment)
  /\ pc' = "depreciation"
  /\ UNCHANGED <<sessionVars, inputs>>
  /\ UNCHANGED <<gridVars, deprVars, loanVars, cfVars, irrVars,
                 mirrVars, payback_period_display>>

(* 3) Depreciation schedule *)

\* A variant that depreciates the whole investment again after the bonus.
MacrsBasisFull(inv, b) == inv

\* macrs_basis = investment * (1 - bonus_depr_pct)
MacrsBasis(inv, b) == FMul(inv, FSub(One, b))

\* A variant that places macrs_rates[i] at year i instead of year i + 1.
DepreciationSeriesShifted(inv, b, n) ==
  [t \in 0..n |-> IF t = 0 THEN FMul(b, inv)
                  ELSE IF t < 6 THEN FMul(macrs_rates[t], MacrsBasis(inv, b))
                  ELSE Zero]

\* depreciation_arr: the bonus at year 0, then macrs_rates[i] * macrs_basis
\* at year i + 1 while that year is inside the array.
DepreciationSeries(inv, b, n) ==
  [t \in 0..n |-> IF t = 0 THEN FMul(b, inv)
                  ELSE IF t - 1 < 6 THEN FMul(macrs_rates[t - 1], MacrsBasis(inv, b))
                  ELSE Zero]

Depreciation ==
  /\ pc = "depreciation"
  /\ depreciation_arr' =
       DepreciationSeries(investment, bonus_depr_pct, project_life)
  /\ depreciation_tax_shield_arr' = Scale(depreciation_arr', corp_tax)
  /\ pc' = "financing"
  /\ UNCHANGED <<sessionVars, inputs>>
  /\ UNCHANGED <<gridVars, savingsVars, loanVars, cfVars, irrVars,
                 mirrVars, payback_period_display>>

(* 4) Financing schedule *)

\* The annuity payment of lines 212-217; the loan is drawn and has a term.
AnnuityFactor(rate, term) ==
  FDiv(FMul(rate, FPow(FAdd(One, rate), term)),
       FSub(FPow(FAdd(One, rate), term), One))

LoanPmt(principal, rate, term) ==
  IF FGt(principal, Zero) /\ term > 0
  THEN IF FGt(rate, Zero) THEN FMul(principal, AnnuityFactor(rate, term))
       ELSE FDiv(principal, FromInt(term))
  ELSE Zero

\* Line 213 divides two Python floats: a zero divisor raises
\* ZeroDivisionError, which nothing catches.
PmtDivisionByZero(principal, rate, term) ==
  /\ FGt(principal, Zero) /\ term > 0 /\ FGt(rate, Zero)
  /\ FSub(FPow(FAdd(One, rate), term), One) = Zero

\* Lines 207-226: principal, payment, the three zeroed arrays, the loan
\* receipt at year 0 and the entry into the amortization loop.  When the
\* loop is skipped the stage runs on to line 251.
Financing ==
  /\ pc = "financing"
  /\ loan_principal_amount' = FMul(finance_pct, investment)
  /\ down_payment' = FSub(investment, loan_principal_amount')
  /\ IF PmtDivisionByZero(loan_principal_amount', loan_rate, loan_term)
     THEN /\ pc' = "crashed"
          /\ UNCHANGED <<loan_pmt, interest_payments, principal_payments,
                         financing_cash_flow, remaining_balance, y_idx,
                         interest_tax_shield_arr, balance_in, adjusted>>
     ELSE /\ loan_pmt' = LoanPmt(loan_principal_amount', loan_rate, loan_term)
          /\ interest_payments' = Zeros(project_life)
          /\ principal_payments' = Zeros(project_life)
          /\ financing_cash_flow' =
               [Zeros(project_life) EXCEPT ![0] = loan_principal_amount']
          /\ balance_in' = Zeros(project_life)
          /\ adjusted' = [t \in 0..project_life |-> ""]
          /\ IF FGt(loan_principal_amount', Zero) /\ loan_term > 0
             THEN /\ remaining_balance' = loan_principal_amount'
                  /\ y_idx' = 1
                  /\ pc' = "amortize"
                  /\ UNCHANGED interest_tax_shield_arr
             ELSE /\ interest_tax_shield_arr' =
                       Scale(interest_payments', corp_tax)
                  /\ pc' = "cashflows"
                  /\ UNCHANGED <<remaining_balance, y_idx>>
  /\ UNCHANGED <<sessionVars, inputs>>
  /\ UNCHANGED <<gridVars, savingsVars, deprVars, cfVars, irrVars,
                 mirrVars, payback_period_display>>

\* The loop body of lines 231-243 for a year entered with balance bal.
\* current_interest and current_principal before the adjustment:
InterestDue(bal, rate) == FMul(bal, rate)
ScheduledPrincipal(bal, rate, pmt) ==
  IF FGt(rate, Zero) THEN FSub(pmt, InterestDue(bal, rate)) ELSE pmt

\* The branch of the last-payment adjustment: "near" when the residual is
\* within 1e-2 of zero, else "over" when the payment overshoots, else "none".
Adjustment(bal, rate, pmt) ==
  LET residual == FSub(bal, ScheduledPrincipal(bal, rate, pmt))
  IN IF FLt(residual, Eps) /\ FGt(residual, FNeg(Eps)) THEN "near"
     ELSE IF FLt(bal, ScheduledPrincipal(bal, rate, pmt)) THEN "over"
     ELSE "none"

CurrentPrincipal(bal, rate, pmt) ==
  IF Adjustment(bal, rate, pmt) = "none"
  THEN ScheduledPrincipal(bal, rate, pmt)
  ELSE bal

\* A variant that never recomputes the interest of an adjusted year.
CurrentInterestNoRecompute(bal, rate, pmt) == InterestDue(bal, rate)

CurrentInterest(bal, rate, pmt) ==
  IF Adjustment(bal, rate, pmt) = "over"
  THEN IF FGt(rate, Zero) THEN FSub(pmt, CurrentPrincipal(bal, rate, pmt))
       ELSE Zero
  ELSE InterestDue(bal, rate)

\* The loop ends at the term, at the end of the arrays, or on a balance of
\* at most 1e-2 (lines 227-229).
LoopEnds ==
  \/ y_idx > loan_term
  \/ y_idx >= project_life + 1
  \/ FLe(remaining_balance, Eps)

\* One iteration of the amortization loop (lines 227-249).
AmortizeYear ==
  /\ pc = "amortize"
  /\ ~LoopEnds
  /\ interest_payments' =
       [interest_payments EXCEPT
          ![y_idx] = CurrentInterest(remaining_balance, loan_rate, loan_pmt)]
  /\ principal_payments' =
       [principal_payments EXCEPT
          ![y_idx] = CurrentPrincipal(remaining_balance, loan_rate, loan_pmt)]
  /\ financing_cash_flow' =
       [financing_cash_flow EXCEPT
          ![y_idx] = FNeg(FAdd(interest_payments'[y_idx],
                               principal_payments'[y_idx]))]
  /\ remaining_balance' = FSub(remaining_balance, principal_payments'[y_idx])
  /\ balance_in' = [balance_in EXCEPT ![y_idx] = remaining_balance]
  /\ adjusted' =
       [adjusted EXCEPT
          ![y_idx] = Adjustment(remaining_balance, loan_rate, loan_pmt)]
  /\ y_idx' = y_idx + 1
  /\ UNCHANGED <<loan_principal_amount, down_payment, loan_pmt,
                 interest_tax_shield_arr, pc>>
  /\ UNCHANGED <<sessionVars, inputs>>
  /\ UNCHANGED <<gridVars, savingsVars, deprVars, cfVars, irrVars,
                 mirrVars, payback_period_display>>

\* The loop's exit and line 251.
AmortizeDone ==
  /\ pc = "amortize"
  /\ LoopEnds
  /\ interest_tax_shield_arr' = Scale(interest_payments, corp_tax)
  /\ pc' = "cashflows"
  /\ UNCHANGED <<loan_principal_amount, down_payment, loan_pmt,
                 interest_payments, principal_payments, financing_cash_flow,
                 remaining_balance, y_idx, balance_in, adjusted>>
  /\ UNCHANGED <<sessionVars, inputs>>
  /\ UNCHANGED <<gridVars, savingsVars, deprVars, cfVars, irrVars,
                 mirrVars, payback_period_display>>

(* 5) Stakeholder cash flows and NPVs *)

\* (cf * dfac).sum()
Npv(cf, df) == NpSum(Times(cf, df))

\* customer_cf[0] (line 267)
CustomerCfYear0 ==
  FAdd(FAdd(FAdd(FNeg(investment), ira_credit), loan_principal_amount),
       depreciation_tax_shield_arr[0])

\* A variant that taxes the savings before the interest is deducted.
CustomerCfYearPreTax(y) ==
  FSub(FAdd(FSub(FMul(customer_gross_savings[y], FSub(One, corp_tax)),
                 interest_payments[y]),
            depreciation_tax_shield_arr[y]),
       principal_payments[y])

\* customer_cf[y_idx] for y_idx >= 1 (lines 273-275)
CustomerCfYear(y) ==
  FSub(FAdd(FMul(FSub(customer_gross_savings[y], interest_payments[y]),
                 FSub(One, corp_tax)),
            depreciation_tax_shield_arr[y]),
       principal_payments[y])

CustomerCf ==
  [t \in 0..project_life |-> IF t = 0 THEN CustomerCfYear0
                             ELSE CustomerCfYear(t)]

\* A variant that leaves EQORE's share out of the project total.
TotalProjectCfCustomerOnly(ecf, ccf) == ccf

\* total_project_cf = eqore_cf + customer_cf
TotalProjectCf(ecf, ccf) == Plus(ecf, ccf)

CashFlows ==
  /\ pc = "cashflows"
  /\ eqore_cf' = eqore_savings
  /\ eqore_npv' = Npv(eqore_cf', dfac)
  /\ customer_cf' = CustomerCf
  /\ customer_npv' = Npv(customer_cf', dfac)
  /\ total_project_cf' = TotalProjectCf(eqore_cf', customer_cf')
  /\ total_project_npv' = Npv(total_project_cf', dfac)
  /\ pc' = "irr"
  /\ UNCHANGED <<sessionVars, inputs>>
  /\ UNCHANGED <<gridVars, savingsVars, deprVars, loanVars, irrVars,
                 mirrVars, payback_period_display>>

(* Customer IRR and MIRR: pyxirr's root-finders are outside the script.  A
   call returns a rate, returns None, or raises; what it does is a function
   of its arguments, so a call with the arguments of the last finished run
   ends as it did in that run. *)

RootRates == {FromRat(1, 4)}
RootOutcomes == RootRates \cup {None, Raised}

\* The text both try blocks build from the outcome of the call.
MetricDisplay(out) ==
  IF out = Raised THEN "N/A (error)"
  ELSE IF out = None THEN "N/A (no solution)"
  ELSE "percent"

\* pd.to_datetime("today"): the day of the year on which the script runs,
\* 1 January (day 0) or 31 December (day 364) of a 365-day year.
Todays == {0, 364}

\* dates (lines 285-288): the project_life + 1 year-ends from the first one
\* on or after today, the first of them then replaced by today.
XirrDates(today, n) == [t \in 0..n |-> IF t = 0 THEN today ELSE 364 + 365 * t]

\* The possible outcomes of xirr(d, cf) and of mirr(cf, rate, rate).
XirrOutcomes(d, cf) ==
  IF last_run.ran /\ last_run.dates = d /\ last_run.customer_cf = cf
  THEN {last_run.customer_irr_val}
  ELSE RootOutcomes

MirrOutcomes(cf, rate) ==
  IF last_run.ran /\ last_run.customer_cf = cf /\ last_run.discount_rate = rate
  THEN {last_run.customer_mirr_val}
  ELSE RootOutcomes

\* A variant without the try block: a raising call ends the script.
CustomerIRRUncaught ==
  /\ pc = "irr"
  /\ \E today \in Todays :
       /\ dates' = XirrDates(today, project_life)
       /\ \E out \in XirrOutcomes(dates', customer_cf) :
            /\ customer_irr_val' = out
            /\ IF out = Raised
               THEN pc' = "crashed" /\ UNCHANGED customer_irr_display
               ELSE pc' = "mirr" /\ customer_irr_display' = MetricDisplay(out)
  /\ UNCHANGED <<sessionVars, inputs>>
  /\ UNCHANGED <<gridVars, savingsVars, deprVars, loanVars, cfVars,
                 mirrVars, payback_period_display>>

\* Lines 285-297.
CustomerIRR ==
  /\ pc = "irr"
  /\ \E today \in Todays :
       /\ dates' = XirrDates(today, project_life)
       /\ \E out \in XirrOutcomes(dates', customer_cf) :
            /\ customer_irr_val' = out
            /\ customer_irr_display' = MetricDisplay(out)
  /\ pc' = "mirr"
  /\ UNCHANGED <<sessionVars, inputs>>
  /\ UNCHANGED <<gridVars, savingsVars, deprVars, loanVars, cfVars,
                 mirrVars, payback_period_display>>

\* Lines 300-308.
CustomerMIRR ==
  /\ pc = "mirr"
  /\ \E out \in MirrOutcomes(customer_cf, discount_rate) :
       /\ customer_mirr_val' = out
       /\ customer_mirr_display' = MetricDisplay(out)
  /\ pc' = "payback"
  /\ UNCHANGED <<sessionVars, inputs>>
  /\ UNCHANGED <<gridVars, savingsVars, deprVars, loanVars, cfVars,
                 irrVars, payback_period_display>>

(* Discounted payback period *)

\* np.where(cumulative_discounted_cf >= -1e-9)[0]
PositiveCumulativeIndices(cf, df) ==
  LET cumulative_discounted_cf == CumSum(Times(cf, df))
  IN {t \in DOMAIN cf : FGe(cumulative_discounted_cf[t], FNeg(PaybackTol))}

Min(S) == CHOOSE t \in S : \A u \in S : t <= u

\* A variant whose year-0 test asks for a strictly positive cash flow.
PaybackDisplayStrictYear0(cf, df) ==
  LET positive_cumulative_indices == PositiveCumulativeIndices(cf, df)
  IN IF positive_cumulative_indices # {}
     THEN IF Min(positive_cumulative_indices) = 0
          THEN IF FGt(cf[0], Zero) THEN "Year 0 (Immediate)"
               ELSE "Year 0"
          ELSE "Year " \o ToString(Min(positive_cumulative_indices))
     ELSE "Never"

\* Lines 313-336.
PaybackDisplay(cf, df) ==
  LET positive_cumulative_indices == PositiveCumulativeIndices(cf, df)
  IN IF positive_cumulative_indices # {}
     THEN IF Min(positive_cumulative_indices) = 0
          THEN IF FGe(cf[0], FNeg(PaybackTol)) THEN "Year 0 (Immediate)"
               ELSE "Year 0"
          ELSE "Year " \o ToString(Min(positive_cumulative_indices))
     ELSE "Never"

DiscountedPayback ==
  /\ pc = "payback"
  /\ payback_period_display' = PaybackDisplay(customer_cf, dfac)
  /\ pc' = "done"
  /\ UNCHANGED <<sessionVars, inputs>>
  /\ UNCHANGED <<gridVars, savingsVars, deprVars, loanVars, cfVars,
                 irrVars, mirrVars>>

----------------------------------------------------------------------------
(* The session: every interaction runs the script again from the top *)

\* Runs of the script in one session.
MaxRuns == 2

\* The two example dictionaries.
THERMOFUSION ==
  Session(FromInt(186900), FromRat(9, 2), 15, FromInt(94000), FromInt(3),
          FromInt(33), FromInt(28), FromInt(30), FromInt(40), FromInt(80),
          FromInt(9), 3)
AALBERTS ==
  Session(FromInt(72000), FromRat(9, 2), 15, FromInt(15600), FromInt(3),
          FromInt(15), FromInt(28), FromInt(30), FromInt(40), FromInt(80),
          FromInt(9), 3)

\* A variant whose dictionaries lack savings_split: that key keeps its value.
SetExampleWithoutSplit(ss, values) ==
  [k \in DOMAIN ss |-> IF k \in DOMAIN values \ {"savings_split"}
                       THEN values[k] ELSE ss[k]]

\* set_example: st.session_state[k] = v for every item of the dictionary
SetExample(ss, values) ==
  [k \in DOMAIN ss \cup DOMAIN values |->
     IF k \in DOMAIN values THEN values[k] ELSE ss[k]]

\* Every year series and metric the script produces.
Outputs ==
  <<dfac, total_savings_arr, eqore_savings, customer_gross_savings,
    depreciation_arr, depreciation_tax_shield_arr, interest_payments,
    principal_payments, interest_tax_shield_arr, financing_cash_flow,
    eqore_cf, customer_cf, total_project_cf, eqore_npv, customer_npv,
    total_project_npv, customer_irr_val, customer_irr_display,
    customer_mirr_val, customer_mirr_display, payback_period_display>>

\* What the session remembers of a run that finished.
Finished ==
  [ran |-> TRUE, inputs |-> inputs, outputs |-> Outputs, dates |-> dates,
   customer_cf |-> customer_cf, discount_rate |-> discount_rate,
   customer_irr_val |-> customer_irr_val,
   customer_mirr_val |-> customer_mirr_val]

\* The statements of lines 137-174 in a new run, on the widget values ss.
ReadSidebar(ss) ==
  /\ investment' = ss.investment
  /\ discount_rate' = Pct(ss.discount_rate)
  /\ project_life' = ss.project_life
  /\ base_savings' = ss.base_savings
  /\ escalation' = Pct(ss.escalation)
  /\ savings_split' = Pct(ss.savings_split)
  /\ corp_tax' = Pct(ss.corp_tax)
  /\ ira_credit_pct' = Pct(ss.ira_credit_pct)
  /\ bonus_depr_pct' = Pct(ss.bonus_depr_pct)
  /\ finance_pct' = Pct(ss.finance_pct)
  /\ loan_rate' = Pct(ss.loan_rate)
  /\ loan_term' = ss.loan_term

\* A new run starts with none of the later variables assigned.
StartOver ==
  /\ dfac' = Unset
  /\ total_savings_arr' = Unset /\ eqore_savings' = Unset
  /\ customer_gross_savings' = Unset /\ ira_credit' = Zero
  /\ depreciation_arr' = Unset /\ depreciation_tax_shield_arr' = Unset
  /\ loan_principal_amount' = Zero /\ down_payment' = Zero /\ loan_pmt' = Zero
  /\ interest_payments' = Unset /\ principal_payments' = Unset
  /\ financing_cash_flow' = Unset /\ remaining_balance' = Zero /\ y_idx' = 0
  /\ interest_tax_shield_arr' = Unset
  /\ balance_in' = Unset /\ adjusted' = Unset
  /\ eqore_cf' = Unset /\ eqore_npv' = Zero
  /\ customer_cf' = Unset /\ customer_npv' = Zero
  /\ total_project_cf' = Unset /\ total_project_npv' = Zero
  /\ customer_irr_val' = None /\ customer_irr_display' = ""
  /\ customer_mirr_val' = None /\ customer_mirr_display' = ""
  /\ dates' = Unset
  /\ payback_period_display' = ""

\* The ways a run of the script ends: at its last line, in the traceback of
\* line 213, or in the exception of a widget.
Ended == {"done", "crashed", "sidebar_error"}

\* The script starts over with the widget values ss, after the example
\* button named (or none): lines 127-174 of the new run.
StartRun(ss, button) ==
  /\ pc \in Ended
  /\ runs < MaxRuns
  /\ session_state' = ss
  /\ ReadSidebar(ss)
  /\ StartOver
  /\ pc' = "grid"
  /\ selected' = button
  /\ runs' = runs + 1
  /\ last_run' = IF pc = "done" THEN Finished ELSE last_run

\* Lines 128-130 and 132-134: an example button is pressed.
ThermofusionExample ==
  StartRun(SetExample(session_state, THERMOFUSION), "Thermofusion")

AalbertsExample ==
  StartRun(SetExample(session_state, AALBERTS), "Aalberts")

\* The script is run again with nothing changed (the Rerun command).
Rerun == StartRun(session_state, "")

\* A value set on the project-life slider.
Edits == {<<"project_life", 2>>}

\* The loan-term slider of line 174 finds the kept loan term above its new
\* maximum: st.slider raises and the run ends there, loan_term unassigned.
SliderRaises(ss) ==
  /\ pc \in Ended
  /\ runs < MaxRuns
  /\ session_state' = ss
  /\ ReadSidebar([ss EXCEPT !.loan_term = 0])
  /\ StartOver
  /\ pc' = "sidebar_error"
  /\ selected' = ""
  /\ runs' = runs + 1
  /\ last_run' = IF pc = "done" THEN Finished ELSE last_run

\* One widget is edited.  A project life set below the kept loan term leaves
\* the loan-term slider out of range: the slider raises or takes its maximum.
EditInput ==
  \E e \in Edits :
    LET ss == [session_state EXCEPT ![e[1]] = e[2]]
    IN IF ss.loan_term <= ss.project_life
       THEN StartRun(ss, "")
       ELSE \/ SliderRaises(ss)
            \/ StartRun([ss EXCEPT !.loan_term = ss.project_life], "")

----------------------------------------------------------------------------
(* Specifications *)

Next ==
  \/ TimeGrid
  \/ SavingsProfile
  \/ Depreciation
  \/ Financing
  \/ AmortizeYear
  \/ AmortizeDone
  \/ CashFlows
  \/ CustomerIRR
  \/ CustomerMIRR
  \/ DiscountedPayback

Lives == 1..MaxLife

\* Sidebar values for the whole pipeline.
Init ==
  InitWith({FromInt(4)}, {FromInt(-100), FromInt(25)}, Lives,
           {One}, {FromInt(100)}, {FromInt(50)},
           {FromInt(25)}, {Zero, FromInt(50)}, {Zero, FromInt(100)},
           {Zero, FromInt(100)}, {FromInt(100)})

Spec == Init /\ [][Next]_vars

\* Sidebar values that vary the loan: its size, its rate and its term.
InitLoan ==
  InitWith({One, FromInt(4)}, {FromInt(25)}, Lives,
           {One}, {Zero}, {FromInt(50)},
           {FromInt(25)}, {Zero}, {Zero},
           {FromInt(50), FromInt(100)},
           {Zero, FromRat(1, 32), FromInt(5), FromInt(100), FromInt(675)})

SpecLoan == InitLoan /\ [][Next]_vars

\* Sidebar values that vary the depreciation: investment, bonus and life.
InitDepr ==
  InitWith({FromRat(1, 64), FromInt(10), FromInt(37)},
           {FromInt(25)}, Lives,
           {One}, {Zero}, {FromInt(50)},
           {FromInt(25)}, {Zero},
           {Zero, FromInt(36), FromInt(40), FromInt(100)},
           {FromInt(50)}, {FromInt(100)})

SpecDepr == InitDepr /\ [][Next]_vars

\* A session: the first run, then example buttons, edits and reruns.
InitSession ==
  InitWith({FromInt(4)}, {FromInt(25)}, {3},
           {One}, {FromInt(100)}, {FromInt(50)},
           {FromInt(25)}, {Zero}, {Zero},
           {FromInt(100)}, {FromInt(100)})

NextSession ==
  \/ Next
  \/ ThermofusionExample
  \/ AalbertsExample
  \/ Rerun
  \/ EditInput

SpecSession == InitSession /\ [][NextSession]_vars

----------------------------------------------------------------------------
(* Properties *)

\* Stages after which a part of the state is final.
AfterDepreciation ==
  {"financing", "amortize", "cashflows", "irr", "mirr", "payback", "done",
   "crashed"}
AfterLoan == {"cashflows", "irr", "mirr", "payback", "done"}
AfterCashFlows == {"irr", "mirr", "payback", "done"}

FAbs(x) == IF FSign(x) < 0 THEN FNeg(x) ELSE x

\* A loan is drawn at a non-negative rate over a term inside the horizon.
LoanDrawn ==
  /\ FGt(loan_principal_amount, Zero)
  /\ FGe(loan_rate, Zero)
  /\ loan_term \in 1..project_life

\* The years the amortization loop has processed so far.
Processed == {y \in DOMAIN adjusted : adjusted[y] # ""}

\* The balance the loop leaves after a processed year y.
BalanceAfter(y) == FSub(balance_in[y], principal_payments[y])

\* C1: for a loan with P > 0, rate i >= 0 and term T in 1..N, the remaining
\* balance after every year y in 1..T is non-negative and no greater than
\* the balance after year y - 1.
C1_BalanceNonIncreasing ==
  LoanDrawn =>
    \A y \in Processed :
      /\ FGe(BalanceAfter(y), Zero)
      /\ FLe(BalanceAfter(y), balance_in[y])

\* principal_payments[1] + ... + principal_payments[T], added in order
PrincipalPaid == SumFrom(principal_payments, 1, 1, loan_term, Zero)

\* C2: for a loan with P > 0 and term T in 1..N, once the loop has processed
\* year T the remaining balance is exactly 0, the principal payments of
\* years 1..T add up to P within 0.01, and no principal is paid after T.
C2_FullyRepaidAtTerm ==
  (pc \in AfterLoan /\ LoanDrawn /\ loan_term \in Processed) =>
    /\ remaining_balance = Zero
    /\ FLe(FAbs(FSub(PrincipalPaid, loan_principal_amount)), Eps)
    /\ \A y \in DOMAIN principal_payments :
         y > loan_term => principal_payments[y] = Zero

\* C3: customer_cf[0] = -investment + ira_credit_pct * investment
\* + loan principal + depreciation tax shield[0]; for every year y in 1..N,
\* customer_cf[y] = (customer gross savings[y] - interest[y]) * (1 - tax)
\* + depreciation tax shield[y] - principal[y], the gross savings being
\* base_savings * (1 + escalation)^(y-1) * (1 - savings_split).
C3_CustomerCashFlow ==
  pc \in AfterCashFlows =>
    /\ customer_cf[0] =
         FAdd(FAdd(FAdd(FNeg(investment), FMul(ira_credit_pct, investment)),
                   FMul(finance_pct, investment)),
              FMul(depreciation_arr[0], corp_tax))
    /\ \A y \in 1..project_life :
         customer_cf[y] =
           FSub(FAdd(FMul(FSub(FMul(FMul(base_savings,
                                         FPow(FAdd(One, escalation), y - 1)),
                                    FSub(One, savings_split)),
                               interest_payments[y]),
                          FSub(One, corp_tax)),
                     FMul(depreciation_arr[y], corp_tax)),
                principal_payments[y])

\* A finished run with a year that has savings, interest, principal and a
\* depreciation tax shield.
C3_Witness ==
  /\ pc = "done"
  /\ \E y \in 1..project_life :
       /\ customer_gross_savings[y] # Zero
       /\ interest_payments[y] # Zero
       /\ principal_payments[y] # Zero
       /\ depreciation_tax_shield_arr[y] # Zero

\* C4: at every year t, total_project_cf[t] = eqore_cf[t] + customer_cf[t]
\* with no other adjustment; eqore_cf[t] is the EQORE share
\* total_savings[t] * savings_split, eqore_cf[0] = 0, and so
\* total_project_cf[0] = customer_cf[0].
C4_TotalIsSumOfParties ==
  pc \in AfterCashFlows =>
    /\ \A t \in 0..project_life :
         total_project_cf[t] = FAdd(eqore_cf[t], customer_cf[t])
    /\ \A t \in 1..project_life :
         eqore_cf[t] =
           FMul(FMul(base_savings, FPow(FAdd(One, escalation), t - 1)),
                savings_split)
    /\ eqore_cf[0] = Zero
    /\ total_project_cf[0] = customer_cf[0]

\* A finished run with a year in which both parties have a cash flow.
C4_Witness ==
  /\ pc = "done"
  /\ \E t \in 1..project_life : eqore_cf[t] # Zero /\ customer_cf[t] # Zero

\* x in units of 2^lo, for a finite x and lo <= x.e
Units(x, lo) == x.m * 2 ^ (x.e - lo)

\* The exact sum of a[0..t] in units of 2^lo.
RECURSIVE UnitsSum(_, _, _)
UnitsSum(a, t, lo) ==
  IF t < 0 THEN 0 ELSE UnitsSum(a, t - 1, lo) + Units(a[t], lo)

\* The exact sum of the depreciation series and the investment, both in
\* units of the smallest exponent among them.
DepreciationTotal ==
  LET lo == Min({depreciation_arr[t].e : t \in DOMAIN depreciation_arr}
                \cup {investment.e})
  IN [sum |-> UnitsSum(depreciation_arr, project_life, lo),
      inv |-> Units(investment, lo)]

C6_DepreciationSeries ==
  pc \in AfterDepreciation =>
    /\ DOMAIN depreciation_arr = 0..project_life
    /\ depreciation_arr[0] = FMul(bonus_depr_pct, investment)
    /\ \A t \in 1..project_life :
         depreciation_arr[t] =
           IF t <= 6
           THEN FMul(macrs_rates[t - 1],
                     FMul(investment, FSub(One, bonus_depr_pct)))
           ELSE Zero
    /\ bonus_depr_pct = One =>
         \A t \in 1..project_life : depreciation_arr[t] = Zero

\* A built series cut short by a horizon under 6 years, with a partial bonus.
C6_Witness ==
  /\ pc = "financing"
  /\ project_life < 6
  /\ FGt(bonus_depr_pct, Zero) /\ FLt(bonus_depr_pct, One)
  /\ depreciation_arr[project_life] # Zero

ConfigError ==
  \/ discount_rate = FNeg(One)
  \/ project_life <= 0
  \/ loan_term > project_life

\* C8: a discount rate of -1, a non-positive horizon or a loan term above
\* the horizon is rejected before any series is computed: no discount
\* factor, cash flow or metric is produced.
C8_ConfigErrorRejected ==
  ConfigError =>
    /\ pc \in {"grid", "crashed"}
    /\ DOMAIN dfac = {}
    /\ DOMAIN customer_cf = {}
    /\ payback_period_display = ""

\* C9: when the IRR or MIRR root-finder returns nothing or raises, only
\* that metric is affected: it displays "N/A (no solution)" or
\* "N/A (error)", the script goes on, and the NPVs, the discounted payback
\* and the cash flows are produced as from the same cash flows.
C9_RootFinderFailureIsLocal ==
  /\ customer_irr_val = Raised =>
       /\ customer_irr_display = "N/A (error)"
       /\ pc \in {"mirr", "payback", "done"}
  /\ customer_mirr_val = Raised =>
       /\ customer_mirr_display = "N/A (error)"
       /\ pc \in {"payback", "done"}
  /\ (pc \in {"mirr", "payback", "done"} /\ customer_irr_val = None) =>
       customer_irr_display = "N/A (no solution)"
  /\ (pc \in {"payback", "done"} /\ customer_mirr_val = None) =>
       customer_mirr_display = "N/A (no solution)"
  /\ pc = "done" =>
       /\ customer_cf = CustomerCf
       /\ customer_npv = Npv(customer_cf, dfac)
       /\ total_project_npv = Npv(total_project_cf, dfac)
       /\ payback_period_display = PaybackDisplay(customer_cf, dfac)

\* A finished run in which the IRR call raised and the MIRR call returned
\* nothing.
C9_Witness ==
  /\ pc = "done"
  /\ customer_irr_val = Raised
  /\ customer_mirr_val = None
  /\ payback_period_display # ""

\* C10: the payback is the smallest index t whose cumulative discounted
\* customer cash flow is >= -1e-9.  It displays "Year 0 (Immediate)"
\* whenever that index is 0 (never the plain "Year 0"), "Year t" for t >= 1,
\* and "Never" exactly when no index qualifies.
C10_PaybackDisplay ==
  pc = "done" =>
    LET cum == CumSum(Times(customer_cf, dfac))
        S == {t \in 0..project_life : FGe(cum[t], FNeg(PaybackTol))}
    IN /\ payback_period_display # "Year 0"
       /\ (S = {}) <=> (payback_period_display = "Never")
       /\ S # {} =>
            payback_period_display =
              IF Min(S) = 0 THEN "Year 0 (Immediate)"
              ELSE "Year " \o ToString(Min(S))

\* A finished run whose payback falls in a year after year 0.
C10_Witness ==
  /\ pc = "done"
  /\ FGt(discount_rate, Zero)
  /\ payback_period_display \notin {"", "Never", "Year 0 (Immediate)"}

\* The year index of the script: years = np.arange(0, project_life + 1).
Years == 0..project_life

\* C13: for every valid configuration, every generated year series
\* (discount factors, total/EQORE/customer savings, depreciation and its tax
\* shield, interest, principal, interest tax shield, financing cash flow,
\* customer, EQORE and total cash flow) has exactly project_life + 1 entries
\* indexed 0..project_life, and the amortization loop never writes an entry
\* at an index greater than project_life.
C13_SeriesLengths ==
  /\ pc \notin {"grid", "sidebar_error"} => DOMAIN dfac = Years
  /\ pc \notin {"grid", "sidebar_error", "savings"} =>
       /\ DOMAIN total_savings_arr = Years
       /\ DOMAIN eqore_savings = Years
       /\ DOMAIN customer_gross_savings = Years
  /\ pc \in AfterDepreciation =>
       /\ DOMAIN depreciation_arr = Years
       /\ DOMAIN depreciation_tax_shield_arr = Years
  /\ pc \in AfterLoan \cup {"amortize"} =>
       /\ DOMAIN interest_payments = Years
       /\ DOMAIN principal_payments = Years
       /\ DOMAIN financing_cash_flow = Years
  /\ (pc = "amortize" /\ ~LoopEnds) => y_idx \in 1..project_life
  /\ pc \in AfterLoan => DOMAIN interest_tax_shield_arr = Years
  /\ pc \in AfterCashFlows =>
       /\ DOMAIN customer_cf = Years
       /\ DOMAIN eqore_cf = Years
       /\ DOMAIN total_project_cf = Years

\* A finished run whose loan runs to the horizon: the loop has written the
\* last entry of the arrays.
C13_Witness ==
  /\ pc = "done"
  /\ loan_term = project_life
  /\ project_life > 1
  /\ principal_payments[project_life] # Zero

\* C11: two evaluations given the same configuration produce the same
\* result in every output (all series, NPVs, IRR, MIRR, payback): no output
\* depends on anything but the configuration, in particular not on the
\* calendar date of the run.  Stated of a finished run whose inputs are
\* those of the run that finished before it.
C11_SameConfigSameResult ==
  (pc = "done" /\ last_run.ran /\ last_run.inputs = inputs) =>
    last_run.outputs = Outputs

\* The dictionary of the example button pressed for this run.
SelectedExample ==
  IF selected = "Thermofusion" THEN THERMOFUSION ELSE AALBERTS

\* C12: after any sequence of edits and example selections, in the run
\* where an example ("Thermofusion" or "Aalberts") is selected every one of
\* the twelve inputs holds the example's value (a percentage as its
\* fraction), and the computation of that run uses no value left over from
\* before the selection: it starts with nothing computed, and the series it
\* has built when the cash flows are complete are those of the example's
\* values.
C12_ExampleOverwritesAllInputs ==
  selected # "" =>
    /\ investment = SelectedExample.investment
    /\ discount_rate = FDiv(SelectedExample.discount_rate, FromInt(100))
    /\ project_life = SelectedExample.project_life
    /\ base_savings = SelectedExample.base_savings
    /\ escalation = FDiv(SelectedExample.escalation, FromInt(100))
    /\ savings_split = FDiv(SelectedExample.savings_split, FromInt(100))
    /\ corp_tax = FDiv(SelectedExample.corp_tax, FromInt(100))
    /\ ira_credit_pct = FDiv(SelectedExample.ira_credit_pct, FromInt(100))
    /\ bonus_depr_pct = FDiv(SelectedExample.bonus_depr_pct, FromInt(100))
    /\ finance_pct = FDiv(SelectedExample.finance_pct, FromInt(100))
    /\ loan_rate = FDiv(SelectedExample.loan_rate, FromInt(100))
    /\ loan_term = SelectedExample.loan_term
    /\ pc = "grid" => NotComputed
    /\ pc = "irr" =>
         /\ dfac = DiscountFactors(discount_rate, SelectedExample.project_life)
         /\ eqore_cf =
              Scale(TotalSavings(SelectedExample.base_savings, escalation,
                                 SelectedExample.project_life),
                    savings_split)
         /\ depreciation_arr =
              DepreciationSeries(SelectedExample.investment, bonus_depr_pct,
                                 SelectedExample.project_life)
         /\ loan_principal_amount =
              FMul(finance_pct, SelectedExample.investment)
         /\ Processed = 1..SelectedExample.loan_term
         /\ customer_cf = CustomerCf

\* A finished run for which the Aalberts example was selected, after a run
\* with other inputs, every one of the twelve different.
C12_Witness ==
  /\ pc = "done"
  /\ selected = "Aalberts"
  /\ last_run.ran
  /\ \A i \in 1..12 : last_run.inputs[i] # inputs[i]

====
